---- MODULE Spec2Model ----
(* BIP39 mnemonic codec (src/src/bip39) and BIP32 extended-key derivation  *)
(* (src/src/bips/bip32) of laron-wallet, as state machines over the calls  *)
(* a client can make.                                                      *)
EXTENDS Integers, Sequences, FiniteSets, TLC

(***************************************************************************)
(* Bounds of the explored inputs.                                          *)
(***************************************************************************)
\* Entropy arguments have every length 0..MaxEntropyLen.
MaxEntropyLen == 36
\* Entropy byte patterns 0..MaxPattern (pattern 0 is the all-zero entropy).
MaxPattern == 0

(***************************************************************************)
(* SHA-256 (sha2::Sha256::digest), on 32-bit words kept as pairs           *)
(* <<hi, lo>> of 16-bit halves.  Messages are at most 55 bytes: one block. *)
(***************************************************************************)
Pow2(n) == 2 ^ n

\* 32-bit words are pairs <<hi, lo>> of 16-bit halves.
\* Bitwise operations on 4-bit values, tabulated: entry [a + 1][b + 1].
XorNibble ==
  <<
     <<0, 1, 2, 3, 4, 5, 6, 7, 8, 9, 10, 11, 12, 13, 14, 15>>,
     <<1, 0, 3, 2, 5, 4, 7, 6, 9, 8, 11, 10, 13, 12, 15, 14>>,
     <<2, 3, 0, 1, 6, 7, 4, 5, 10, 11, 8, 9, 14, 15, 12, 13>>,
     <<3, 2, 1, 0, 7, 6, 5, 4, 11, 10, 9, 8, 15, 14, 13, 12>>,
     <<4, 5, 6, 7, 0, 1, 2, 3, 12, 13, 14, 15, 8, 9, 10, 11>>,
     <<5, 4, 7, 6, 1, 0, 3, 2, 13, 12, 15, 14, 9, 8, 11, 10>>,
     <<6, 7, 4, 5, 2, 3, 0, 1, 14, 15, 12, 13, 10, 11, 8, 9>>,
     <<7, 6, 5, 4, 3, 2, 1, 0, 15, 14, 13, 12, 11, 10, 9, 8>>,
     <<8, 9, 10, 11, 12, 13, 14, 15, 0, 1, 2, 3, 4, 5, 6, 7>>,
     <<9, 8, 11, 10, 13, 12, 15, 14, 1, 0, 3, 2, 5, 4, 7, 6>>,
     <<10, 11, 8, 9, 14, 15, 12, 13, 2, 3, 0, 1, 6, 7, 4, 5>>,
     <<11, 10, 9, 8, 15, 14, 13, 12, 3, 2, 1, 0, 7, 6, 5, 4>>,
     <<12, 13, 14, 15, 8, 9, 10, 11, 4, 5, 6, 7, 0, 1, 2, 3>>,
     <<13, 12, 15, 14, 9, 8, 11, 10, 5, 4, 7, 6, 1, 0, 3, 2>>,
     <<14, 15, 12, 13, 10, 11, 8, 9, 6, 7, 4, 5, 2, 3, 0, 1>>,
     <<15, 14, 13, 12, 11, 10, 9, 8, 7, 6, 5, 4, 3, 2, 1, 0>>
  >>

AndNibble ==
  <<
     <<0, 0, 0, 0, 0, 0, 0, 0, 0, 0, 0, 0, 0, 0, 0, 0>>,
     <<0, 1, 0, 1, 0, 1, 0, 1, 0, 1, 0, 1, 0, 1, 0, 1>>,
     <<0, 0, 2, 2, 0, 0, 2, 2, 0, 0, 2, 2, 0, 0, 2, 2>>,
     <<0, 1, 2, 3, 0, 1, 2, 3, 0, 1, 2, 3, 0, 1, 2, 3>>,
     <<0, 0, 0, 0, 4, 4, 4, 4, 0, 0, 0, 0, 4, 4, 4, 4>>,
     <<0, 1, 0, 1, 4, 5, 4, 5, 0, 1, 0, 1, 4, 5, 4, 5>>,
     <<0, 0, 2, 2, 4, 4, 6, 6, 0, 0, 2, 2, 4, 4, 6, 6>>,
     <<0, 1, 2, 3, 4, 5, 6, 7, 0, 1, 2, 3, 4, 5, 6, 7>>,
     <<0, 0, 0, 0, 0, 0, 0, 0, 8, 8, 8, 8, 8, 8, 8, 8>>,
     <<0, 1, 0, 1, 0, 1, 0, 1, 8, 9, 8, 9, 8, 9, 8, 9>>,
     <<0, 0, 2, 2, 0, 0, 2, 2, 8, 8, 10, 10, 8, 8, 10, 10>>,
     <<0, 1, 2, 3, 0, 1, 2, 3, 8, 9, 10, 11, 8, 9, 10, 11>>,
     <<0, 0, 0, 0, 4, 4, 4, 4, 8, 8, 8, 8, 12, 12, 12, 12>>,
     <<0, 1, 0, 1, 4, 5, 4, 5, 8, 9, 8, 9, 12, 13, 12, 13>>,
     <<0, 0, 2, 2, 4, 4, 6, 6, 8, 8, 10, 10, 12, 12, 14, 14>>,
     <<0, 1, 2, 3, 4, 5, 6, 7, 8, 9, 10, 11, 12, 13, 14, 15>>
  >>

\* A table applied nibble by nibble to two 16-bit values.
Bitwise16(tbl, a, b) ==
    tbl[(a \div 4096) + 1][(b \div 4096) + 1] * 4096
  + tbl[((a \div 256) % 16) + 1][((b \div 256) % 16) + 1] * 256
  + tbl[((a \div 16) % 16) + 1][((b \div 16) % 16) + 1] * 16
  + tbl[(a % 16) + 1][(b % 16) + 1]

WXor(a, b) == << Bitwise16(XorNibble, a[1], b[1]), Bitwise16(XorNibble, a[2], b[2]) >>
WAnd(a, b) == << Bitwise16(AndNibble, a[1], b[1]), Bitwise16(AndNibble, a[2], b[2]) >>
WNot(a) == << 65535 - a[1], 65535 - a[2] >>

Rotr(w, n) ==
  LET x == IF n >= 16 THEN <<w[2], w[1]>> ELSE w
      k == n % 16
  IN  IF k = 0 THEN x
      ELSE << (x[1] \div Pow2(k)) + (x[2] % Pow2(k)) * Pow2(16 - k),
              (x[2] \div Pow2(k)) + (x[1] % Pow2(k)) * Pow2(16 - k) >>

Shr(w, n) ==
  << w[1] \div Pow2(n), (w[2] \div Pow2(n)) + (w[1] % Pow2(n)) * Pow2(16 - n) >>

WXor3(a, b, c) == WXor(WXor(a, b), c)
WCh(e, f, g) == WXor(WAnd(e, f), WAnd(WNot(e), g))
WMaj(a, b, c) == WXor3(WAnd(a, b), WAnd(a, c), WAnd(b, c))

WAdd(a, b) ==
  LET lo == a[2] + b[2]
      hi == a[1] + b[1] + (lo \div 65536)
  IN  << hi % 65536, lo % 65536 >>

SHA256_K ==
  <<
     <<17034, 12184>>, <<28983, 17553>>, <<46528, 64463>>, <<59829, 56229>>,
     <<14678, 49755>>, <<23025, 4593>>, <<37439, 33444>>, <<43804, 24277>>,
     <<55303, 43672>>, <<4739, 23297>>, <<9265, 34238>>, <<21772, 32195>>,
     <<29374, 23924>>, <<32990, 45566>>, <<39900, 1703>>, <<49563, 61812>>,
     <<58523, 27073>>, <<61374, 18310>>, <<4033, 40390>>, <<9228, 41420>>,
     <<11753, 11375>>, <<19060, 33962>>, <<23728, 43484>>, <<30457, 35034>>,
     <<38974, 20818>>, <<43057, 50797>>, <<45059, 10184>>, <<48985, 32711>>,
     <<50912, 3059>>, <<54695, 37191>>, <<1738, 25425>>, <<5161, 10599>>,
     <<10167, 2693>>, <<11803, 8504>>, <<19756, 28156>>, <<21304, 3347>>,
     <<25866, 29524>>, <<30314, 2747>>, <<33218, 51502>>, <<37490, 11397>>,
     <<41663, 59553>>, <<43034, 26187>>, <<49739, 35696>>, <<51052, 20899>>,
     <<53650, 59417>>, <<54937, 1572>>, <<62478, 13701>>, <<4202, 41072>>,
     <<6564, 49430>>, <<7735, 27656>>, <<10056, 30540>>, <<13488, 48309>>,
     <<14620, 3251>>, <<20184, 43594>>, <<23452, 51791>>, <<26670, 28659>>,
     <<29839, 33518>>, <<30885, 25455>>, <<33992, 30740>>, <<36039, 520>>,
     <<37054, 65530>>, <<42064, 27883>>, <<48889, 41975>>, <<50801, 30962>>
  >>

SHA256_H0 ==
  <<
     <<27145, 58983>>, <<47975, 44677>>, <<15470, 62322>>, <<42319, 62778>>,
     <<20750, 21119>>, <<39685, 26764>>, <<8067, 55723>>, <<23520, 52505>>
  >>

\* One 64-byte block: message, 0x80, zero fill, 64-bit big-endian bit length.
Sha256Pad(msg) ==
  [i \in 1..64 |->
     IF i <= Len(msg) THEN msg[i]
     ELSE IF i = Len(msg) + 1 THEN 128
     ELSE IF i = 63 THEN (8 * Len(msg)) \div 256
     ELSE IF i = 64 THEN (8 * Len(msg)) % 256
     ELSE 0]

\* The one member of a singleton set: binds a computed value once.
The(S) == CHOOSE v \in S : TRUE

Sha256W(w, t) ==
  WAdd(WAdd(w[t - 16], WXor3(Rotr(w[t - 15], 7), Rotr(w[t - 15], 18), Shr(w[t - 15], 3))),
       WAdd(w[t - 7], WXor3(Rotr(w[t - 2], 17), Rotr(w[t - 2], 19), Shr(w[t - 2], 10))))

\* Extends the schedule w with words lo..hi, split in halves to keep the
\* evaluation shallow.
RECURSIVE Sha256Schedule(_, _, _)
Sha256Schedule(w, lo, hi) ==
  IF lo = hi THEN Append(w, Sha256W(w, lo))
  ELSE The({ Sha256Schedule(m, ((lo + hi) \div 2) + 1, hi) :
               m \in { Sha256Schedule(w, lo, (lo + hi) \div 2) } })

Sha256T1(s, wt, kt) ==
  WAdd(WAdd(WAdd(s[8], WXor3(Rotr(s[5], 6), Rotr(s[5], 11), Rotr(s[5], 25))),
            WAdd(WCh(s[5], s[6], s[7]), kt)), wt)

Sha256T2(s) ==
  WAdd(WXor3(Rotr(s[1], 2), Rotr(s[1], 13), Rotr(s[1], 22)), WMaj(s[1], s[2], s[3]))

Sha256Step(s, wt, kt) ==
  The({ <<WAdd(t[1], t[2]), s[1], s[2], s[3], WAdd(s[4], t[1]), s[5], s[6], s[7]>> :
          t \in { <<Sha256T1(s, wt, kt), Sha256T2(s)>> } })

\* Rounds lo..hi of the compression loop, split in halves to keep the
\* evaluation shallow.
RECURSIVE Sha256Rounds(_, _, _, _)
Sha256Rounds(s, w, lo, hi) ==
  IF lo = hi THEN Sha256Step(s, w[lo], SHA256_K[lo])
  ELSE The({ Sha256Rounds(m, w, ((lo + hi) \div 2) + 1, hi) :
               m \in { Sha256Rounds(s, w, lo, (lo + hi) \div 2) } })

\* First byte of SHA-256(msg), for msg of at most 55 bytes.
Sha256First(msg) ==
  LET p  == Sha256Pad(msg)
      w0 == [j \in 1..16 |-> << p[4 * j - 3] * 256 + p[4 * j - 2], p[4 * j - 1] * 256 + p[4 * j] >>]
  IN  The({ WAdd(SHA256_H0[1], s[1])[1] \div 256 :
              s \in { Sha256Rounds(SHA256_H0, w, 1, 64) : w \in { Sha256Schedule(w0, 17, 64) } } })


\* The whole digest, 32 bytes.
Sha256Digest(msg) ==
  LET p  == Sha256Pad(msg)
      w0 == [j \in 1..16 |-> << p[4*j-3]*256 + p[4*j-2], p[4*j-1]*256 + p[4*j] >>]
      Bytes(w) == << w[1] \div 256, w[1] % 256, w[2] \div 256, w[2] % 256 >>
  IN  The({ Bytes(h[1]) \o Bytes(h[2]) \o Bytes(h[3]) \o Bytes(h[4])
              \o Bytes(h[5]) \o Bytes(h[6]) \o Bytes(h[7]) \o Bytes(h[8]) :
            h \in { [k \in 1..8 |-> WAdd(SHA256_H0[k], s[k])] @@ << >> :
                    s \in { Sha256Rounds(SHA256_H0, w, 1, 64) : w \in { Sha256Schedule(w0, 17, 64) } } } })
(***************************************************************************)
(* Text.  A string is a sequence of code points.                           *)
(***************************************************************************)
Space == 32
Tab == 9
IdeographicSpace == 12288
LetterA == 97
FullwidthA == 65345

\* char::is_whitespace, as used by str::split_whitespace.
IsWhitespace(c) == c \in {Space, Tab, IdeographicSpace}

\* unicode_normalization's nfkd(): the compatibility characters of the
\* alphabet decompose to their ASCII counterparts, every other one to itself.
NfkdChar(c) ==
  IF c = IdeographicSpace THEN Space
  ELSE IF c = FullwidthA THEN LetterA
  ELSE c

Nfkd(s) == SubSeq([i \in 1..Len(s) |-> NfkdChar(s[i])], 1, Len(s))

\* str::split_whitespace().collect(): the maximal runs of non-whitespace.
SplitWhitespace(s) ==
  LET IsStart(i) == ~IsWhitespace(s[i]) /\ (i = 1 \/ IsWhitespace(s[i - 1]))
      IsEnd(i) == ~IsWhitespace(s[i]) /\ (i = Len(s) \/ IsWhitespace(s[i + 1]))
  IN  The({ SubSeq([k \in 1..Len(run[1]) |-> SubSeq(s, run[1][k], run[2][k])],
                   1, Len(run[1])) :
            run \in { << SelectSeq([i \in 1..Len(s) |-> i], IsStart),
                         SelectSeq([i \in 1..Len(s) |-> i], IsEnd) >> } })

\* [T]::join(sep) on strings: words lo..hi with sep between them.
RECURSIVE JoinRange(_, _, _, _)
JoinRange(words, sep, lo, hi) ==
  IF lo > hi THEN << >>
  ELSE IF lo = hi THEN words[lo]
  ELSE JoinRange(words, sep, lo, (lo + hi) \div 2) \o sep
       \o JoinRange(words, sep, ((lo + hi) \div 2) + 1, hi)

Join(words, sep) == JoinRange(words, sep, 1, Len(words))

(***************************************************************************)
(* Word list and word map (src/src/bip39/language.rs).                     *)
(***************************************************************************)
WordCount == 2048

\* The contents of wordlists/english.txt: 2048 distinct words in sorted
\* order.  Word i is written with three letters of 'a'..'p'.
WordListData ==
  [i \in 1..WordCount |->
     << LetterA + ((i - 1) \div 256), LetterA + (((i - 1) \div 16) % 16), LetterA + ((i - 1) % 16) >>]

\* Language::word_list
WordList(lang) == [data |-> WordListData]

\* WordList::get: data[index]
WordListGet(list, index) == list.data[index + 1]

\* The loop of Language::word_map over data[lo..hi]: map.insert(word, i).
RECURSIVE WordMapInsert(_, _, _, _)
WordMapInsert(map, data, lo, hi) ==
  IF lo > hi THEN map
  ELSE IF lo = hi THEN (data[lo] :> (lo - 1)) @@ map
  ELSE The({ WordMapInsert(m, data, ((lo + hi) \div 2) + 1, hi) :
               m \in { WordMapInsert(map, data, lo, (lo + hi) \div 2) } })

WordMapData == WordMapInsert(<< >>, WordListData, 1, WordCount)

\* Language::word_map
WordMap(lang) == [data |-> WordMapData]

\* A lookup that also answers for the beginning of an entry.
GetIndexByPrefix(map, word) ==
  IF \E w \in DOMAIN map.data : SubSeq(w, 1, Len(word)) = word
  THEN [ok |-> TRUE,
        index |-> map.data[CHOOSE w \in DOMAIN map.data : SubSeq(w, 1, Len(word)) = word]]
  ELSE [ok |-> FALSE, index |-> 0]

\* WordMap::get_index
GetIndex(map, word) ==
  IF word \in DOMAIN map.data
  THEN [ok |-> TRUE, index |-> map.data[word]]
  ELSE [ok |-> FALSE, index |-> 0]

(***************************************************************************)
(* Mnemonic codec (src/src/bip39/mnemonic.rs).                             *)
(***************************************************************************)
Types == {"Words12", "Words15", "Words18", "Words21", "Words24"}

\* Type::from_words
TypeFromWords(words) ==
  CASE words = 12 -> [ok |-> TRUE, ty |-> "Words12", err |-> "", arg |-> 0]
    [] words = 15 -> [ok |-> TRUE, ty |-> "Words15", err |-> "", arg |-> 0]
    [] words = 18 -> [ok |-> TRUE, ty |-> "Words18", err |-> "", arg |-> 0]
    [] words = 21 -> [ok |-> TRUE, ty |-> "Words21", err |-> "", arg |-> 0]
    [] words = 24 -> [ok |-> TRUE, ty |-> "Words24", err |-> "", arg |-> 0]
    [] OTHER -> [ok |-> FALSE, ty |-> "", err |-> "InvalidMnemonicLength", arg |-> words]

\* Type::total_bits
TotalBits(ty) ==
  CASE ty = "Words12" -> 128
    [] ty = "Words15" -> 160
    [] ty = "Words18" -> 192
    [] ty = "Words21" -> 224
    [] ty = "Words24" -> 256

\* Type::total_words
TotalWords(ty) ==
  CASE ty = "Words12" -> 12
    [] ty = "Words15" -> 15
    [] ty = "Words18" -> 18
    [] ty = "Words21" -> 21
    [] ty = "Words24" -> 24

\* Type::entropy_bits
EntropyBits(ty) == TotalBits(ty) - 8 * 4

\* Type::checksum_bits
ChecksumBits(ty) ==
  CASE ty = "Words12" -> 4
    [] ty = "Words15" -> 5
    [] ty = "Words18" -> 6
    [] ty = "Words21" -> 7
    [] ty = "Words24" -> 8

\* collect::<Vec<_>>(): the sequence with every element computed.
Collect(f) == SubSeq(f, 1, Len(f))

\* flat_map(|x| (0..width).rev().map(move |i| (x >> i) & 1)): the bits of
\* every element, most significant first.
FlatBits(xs, width) ==
  Collect([k \in 1..(width * Len(xs)) |->
             (xs[((k - 1) \div width) + 1] \div Pow2(width - 1 - ((k - 1) % width))) % 2])

\* slice::chunks(n): groups of n, the last one possibly shorter.
Chunks(s, n) ==
  Collect([c \in 1..((Len(s) + n - 1) \div n) |->
             SubSeq(s, (c - 1) * n + 1, IF c * n < Len(s) THEN c * n ELSE Len(s))])

\* take_while(|chunk| chunk.len() == n)
TakeWhileLen(chunks, n) ==
  SubSeq(chunks, 1,
         IF \A i \in 1..Len(chunks) : Len(chunks[i]) = n THEN Len(chunks)
         ELSE (CHOOSE i \in 1..Len(chunks) :
                 /\ Len(chunks[i]) # n
                 /\ \A j \in 1..(i - 1) : Len(chunks[j]) = n) - 1)

\* fold(0, |acc, bit| (acc << 1) | bit) over the first k bits, in an
\* unsigned integer of the given width.
RECURSIVE FoldBits(_, _, _)
FoldBits(chunk, k, width) ==
  IF k = 0 THEN 0
  ELSE (FoldBits(chunk, k - 1, width) * 2 + chunk[k]) % Pow2(width)

NoMnemonic == [entropy |-> << >>, language |-> "", phrase |-> << >>]

\* A from_entropy_unchecked that appends no checksum byte to the entropy.
FromEntropyUncheckedNoChecksum(ent, lang) ==
  The({ [entropy |-> ent,
         language |-> lang,
         phrase |-> Join([i \in 1..Len(groups) |->
                            WordListGet(WordList(lang), FoldBits(groups[i], 11, 16))],
                         <<Space>>)] :
        groups \in { TakeWhileLen(Chunks(FlatBits(ent, 8), 11), 11) } })

\* Mnemonic::from_entropy_unchecked
FromEntropyUnchecked(ent, lang) ==
  The({ [entropy |-> ent,
         language |-> lang,
         phrase |-> Join([i \in 1..Len(groups) |->
                            WordListGet(WordList(lang), FoldBits(groups[i], 11, 16))],
                         <<Space>>)] :
        groups \in { TakeWhileLen(Chunks(FlatBits(bytes, 8), 11), 11) :
                     bytes \in { Append(ent, Sha256First(ent)) } } })

\* Mnemonic::from_entropy
FromEntropy(ent, lang) ==
  IF Len(ent) % 4 # 0 \/ ~(Len(ent) >= 16 /\ Len(ent) < 32)
  THEN [status |-> "InvalidEntropyLength", arg |-> Len(ent), value |-> NoMnemonic]
  ELSE [status |-> "Ok", arg |-> 0, value |-> FromEntropyUnchecked(ent, lang)]

\* Mnemonic::new, with the bytes the random generator delivers.
New(ty, lang, random) ==
  [status |-> "Ok", arg |-> 0, value |-> FromEntropyUnchecked(random, lang)]

Failure(kind, n) ==
  [status |-> kind, arg |-> n, entropy |-> << >>, hashed |-> << >>, digest |-> -1]

\* A checksum comparison that masks the low bits of the digest byte where
\* the code shifts the high bits down.
CheckChecksumMasked(bytes, mnemonic_type) ==
  The({ IF bytes[Len(bytes)] # calculated % Pow2(ChecksumBits(mnemonic_type))
        THEN [Failure("InvalidChecksum", 0) EXCEPT
                !.hashed = SubSeq(bytes, 1, Len(bytes) - 1), !.digest = calculated]
        ELSE [status |-> "Ok", arg |-> 0, entropy |-> SubSeq(bytes, 1, Len(bytes) - 1),
              hashed |-> SubSeq(bytes, 1, Len(bytes) - 1), digest |-> calculated] :
        calculated \in { Sha256First(SubSeq(bytes, 1, Len(bytes) - 1)) } })

\* Mnemonic::phrase_to_entropy from `entropy.pop()` on: the checksum
\* comparison.  Besides the outcome, the record shows the digest call: the
\* bytes hashed and the first digest byte.
CheckChecksum(bytes, mnemonic_type) ==
  The({ IF bytes[Len(bytes)] # calculated \div Pow2(8 - ChecksumBits(mnemonic_type))
        THEN [Failure("InvalidChecksum", 0) EXCEPT
                !.hashed = SubSeq(bytes, 1, Len(bytes) - 1), !.digest = calculated]
        ELSE [status |-> "Ok", arg |-> 0, entropy |-> SubSeq(bytes, 1, Len(bytes) - 1),
              hashed |-> SubSeq(bytes, 1, Len(bytes) - 1), digest |-> calculated] :
        calculated \in { Sha256First(SubSeq(bytes, 1, Len(bytes) - 1)) } })

\* Mnemonic::phrase_to_entropy from Type::from_words on: the word count
\* and the repacking of the bits into bytes.
BitsToEntropy(bits) ==
  IF ~TypeFromWords(Len(bits) \div 11).ok
  THEN Failure(TypeFromWords(Len(bits) \div 11).err, TypeFromWords(Len(bits) \div 11).arg)
  ELSE The({ CheckChecksum(Collect([c \in 1..Len(chunks) |->
                                      FoldBits(chunks[c], Len(chunks[c]), 8)]),
                           TypeFromWords(Len(bits) \div 11).ty) :
             chunks \in { Chunks(bits, 8) } })

\* A phrase_to_entropy that looks at the word count before it looks the
\* words up.
PhraseToEntropyCountFirst(phrase, lang) ==
  The({ IF ~TypeFromWords(Len(words)).ok
        THEN Failure(TypeFromWords(Len(words)).err, TypeFromWords(Len(words)).arg)
        ELSE The({ IF \E i \in 1..Len(found) : ~found[i].ok
                   THEN Failure("InvalidWord", 0)
                   ELSE BitsToEntropy(FlatBits([i \in 1..Len(found) |-> found[i].index], 11)) :
                   found \in { Collect([i \in 1..Len(words) |->
                                          GetIndex(WordMap(lang), words[i])]) } }) :
        words \in { SplitWhitespace(phrase) } })

\* Mnemonic::phrase_to_entropy
PhraseToEntropy(phrase, lang) ==
  The({ IF \E i \in 1..Len(found) : ~found[i].ok
        THEN Failure("InvalidWord", 0)
        ELSE The({ BitsToEntropy(bits) :
                   bits \in { FlatBits([i \in 1..Len(found) |-> found[i].index], 11) } }) :
        found \in { Collect([i \in 1..Len(words) |-> GetIndex(WordMap(lang), words[i])]) :
                    words \in { SplitWhitespace(phrase) } } })

\* Mnemonic::from_phrase
FromPhrase(phrase, lang) ==
  The({ [status |-> r.status, arg |-> r.arg,
         value |-> IF r.status = "Ok"
                   THEN [entropy |-> r.entropy, language |-> lang, phrase |-> Nfkd(phrase)]
                   ELSE NoMnemonic,
         hashed |-> r.hashed, digest |-> r.digest] :
        r \in { PhraseToEntropy(Nfkd(phrase), lang) } })

\* Mnemonic::validate
Validate(phrase, lang) ==
  The({ [status |-> r.status, arg |-> r.arg, value |-> NoMnemonic,
         hashed |-> r.hashed, digest |-> r.digest] :
        r \in { PhraseToEntropy(phrase, lang) } })

(***************************************************************************)
(* The arguments a client passes.                                          *)
(***************************************************************************)
\* Phrases of up to MaxTake words are built from a mnemonic's words.
MaxTake == 25

Languages == {"English"}

\* Entropy (or generator output) of a length and a byte pattern.
EntropyBytes(len, p) == Collect([i \in 1..len |-> (p * 151 + (i - 1) * p * 29) % 256])

\* A token that is no entry of the list: a proper prefix of entries.
JunkWord == <<LetterA, LetterA + 1>>

NoEdit == [kind |-> "none", take |-> 0, junk |-> 0, ws |-> "", wide |-> FALSE, bit |-> -1]

\* The ways a client rewrites the phrase of a mnemonic of n words: the
\* first `take` words of the phrase repeated, word `junk` replaced by a
\* non-word, separators single spaces or a mix, the first letter full width.
Crafts(n) ==
  { [kind |-> "craft", take |-> t, junk |-> j, ws |-> w, wide |-> f, bit |-> -1] :
      t \in 0..MaxTake, j \in 0..MaxTake, w \in {"single", "mixed"}, f \in BOOLEAN }

CraftEdits(n) == { e \in Crafts(n) : e.junk \in {0, 1, e.take} }

\* One bit of the n * 11 bits of the phrase's encoding flipped.
FlipEdits(n) ==
  { [kind |-> "flip", take |-> n, junk |-> 0, ws |-> "single", wide |-> FALSE, bit |-> b] :
      b \in 0..(11 * n - 1) }

Identity(n) == [kind |-> "craft", take |-> n, junk |-> 0, ws |-> "single", wide |-> FALSE, bit |-> -1]

Separator(ws, i) ==
  IF ws = "single" THEN <<Space>>
  ELSE CASE i % 3 = 0 -> <<Space, Space>>
         [] i % 3 = 1 -> <<Tab>>
         [] i % 3 = 2 -> <<IdeographicSpace>>

Widen(word) ==
  IF Len(word) > 0 /\ word[1] = LetterA THEN <<FullwidthA>> \o Tail(word) ELSE word

\* The words of a phrase the codec produced, as indices.
Indices(phrase) ==
  The({ Collect([i \in 1..Len(words) |-> WordMapData[words[i]]]) :
        words \in { SplitWhitespace(phrase) } })

\* The phrase a client obtains from `phrase` by an edit.
Edited(phrase, e) ==
  IF e.kind = "flip"
  THEN The({ Join([i \in 1..(Len(bits) \div 11) |->
                     WordListData[FoldBits(SubSeq(bits, 11 * i - 10, 11 * i), 11, 16) + 1]],
                  <<Space>>) :
             bits \in { [k \in 1..Len(orig) |-> IF k = e.bit + 1 THEN 1 - orig[k] ELSE orig[k]] :
                        orig \in { FlatBits(Indices(phrase), 11) } } })
  ELSE The({ (IF e.ws = "mixed" THEN <<Tab>> ELSE << >>)
             \o Join([i \in 1..(2 * e.take - 1) |->
                        IF i % 2 = 0 THEN Separator(e.ws, i \div 2)
                        ELSE IF (i + 1) \div 2 = e.junk THEN JunkWord
                        ELSE IF i = 1 /\ e.wide THEN Widen(words[1])
                        ELSE words[(((i + 1) \div 2 - 1) % Len(words)) + 1]], << >>)
             \o (IF e.ws = "mixed" THEN <<Space>> ELSE << >>) :
             words \in { SplitWhitespace(phrase) } })

(***************************************************************************)
(* State.                                                                  *)
(***************************************************************************)
VARIABLES
  mnemonic,   \* the Mnemonic the client holds, or NoMnemonic
  call,       \* the last call and its arguments
  result      \* what the last call returned

codecvars == <<mnemonic, call, result>>

NoCall == [op |-> "none", ent |-> << >>, ty |-> "", phrase |-> << >>, edit |-> NoEdit]

NoBits == [total_bits |-> 0, total_words |-> 0, entropy_bits |-> 0, checksum_bits |-> 0]

NoResult ==
  [status |-> "none", arg |-> 0, value |-> NoMnemonic, hashed |-> << >>, digest |-> -1,
   bits |-> NoBits]

CodecInit ==
  /\ mnemonic = NoMnemonic
  /\ call = NoCall
  /\ result = NoResult

\* Mnemonic::new(ty, lang)
CallNew ==
  /\ call = NoCall
  /\ \E ty \in Types, lang \in Languages, p \in 0..MaxPattern :
       \E r \in { New(ty, lang, EntropyBytes(TotalBits(ty) \div 8, p)) } :
         /\ call' = [NoCall EXCEPT !.op = "new", !.ty = ty]
         /\ result' = [NoResult EXCEPT !.status = r.status, !.arg = r.arg, !.value = r.value]
         /\ mnemonic' = r.value

\* Mnemonic::from_entropy(ent, lang)
CallFromEntropy ==
  /\ call = NoCall
  /\ \E len \in 0..MaxEntropyLen, lang \in Languages, p \in 0..MaxPattern :
       \E r \in { FromEntropy(EntropyBytes(len, p), lang) } :
         /\ call' = [NoCall EXCEPT !.op = "from_entropy", !.ent = EntropyBytes(len, p)]
         /\ result' = [NoResult EXCEPT !.status = r.status, !.arg = r.arg, !.value = r.value]
         /\ mnemonic' = r.value

\* total_bits(), total_words(), entropy_bits() and checksum_bits() of a Type
CallTypeAccessors ==
  /\ call = NoCall
  /\ \E ty \in Types :
       /\ call' = [NoCall EXCEPT !.op = "type", !.ty = ty]
       /\ result' = [NoResult EXCEPT !.status = "Ok",
                       !.bits = [total_bits |-> TotalBits(ty), total_words |-> TotalWords(ty),
                                 entropy_bits |-> EntropyBits(ty),
                                 checksum_bits |-> ChecksumBits(ty)]]
       /\ UNCHANGED mnemonic

\* Mnemonic::from_phrase on a phrase made from the held mnemonic's
CallFromPhrase ==
  /\ call.op \in {"new", "from_entropy"}
  /\ mnemonic # NoMnemonic
  /\ \E e \in CraftEdits(Len(Indices(mnemonic.phrase))) :
       \E p \in { Edited(mnemonic.phrase, e) } :
         \E r \in { FromPhrase(p, mnemonic.language) } :
           /\ call' = [NoCall EXCEPT !.op = "from_phrase", !.phrase = p, !.edit = e]
           /\ result' = [NoResult EXCEPT !.status = r.status, !.arg = r.arg, !.value = r.value,
                                         !.hashed = r.hashed, !.digest = r.digest]
           /\ UNCHANGED mnemonic

\* Mnemonic::validate on a phrase made from the held mnemonic's
CallValidate ==
  /\ call.op \in {"new", "from_entropy"}
  /\ mnemonic # NoMnemonic
  /\ \E e \in CraftEdits(Len(Indices(mnemonic.phrase))) \cup FlipEdits(Len(Indices(mnemonic.phrase))) :
       \E p \in { Edited(mnemonic.phrase, e) } :
         \E r \in { Validate(p, mnemonic.language) } :
           /\ call' = [NoCall EXCEPT !.op = "validate", !.phrase = p, !.edit = e]
           /\ result' = [NoResult EXCEPT !.status = r.status, !.arg = r.arg, !.value = r.value,
                                         !.hashed = r.hashed, !.digest = r.digest]
           /\ UNCHANGED mnemonic

\* The client lets go of what it holds.
Drop ==
  /\ call # NoCall
  /\ mnemonic' = NoMnemonic
  /\ call' = NoCall
  /\ result' = NoResult

CodecNext ==
  \/ CallNew
  \/ CallFromEntropy
  \/ CallTypeAccessors
  \/ CallFromPhrase
  \/ CallValidate
  \/ Drop

(***************************************************************************)
(* Primitives of the external crates behind the key derivation.  Their     *)
(* internals are no part of this repository: each is a fixed function of   *)
(* its input bytes with the output length of the real one.                 *)
(***************************************************************************)
\* A 16-bit digest of a byte string, seeded.
RECURSIVE Absorb(_, _, _, _)
Absorb(h, bytes, lo, hi) ==
  IF lo > hi THEN h
  ELSE IF lo = hi THEN (h * 257 + bytes[lo] + 1) % 65521
  ELSE The({ Absorb(m, bytes, ((lo + hi) \div 2) + 1, hi) :
             m \in { Absorb(h, bytes, lo, (lo + hi) \div 2) } })

\* hmac::Hmac<Sha512>: new_from_slice(key), update(msg), finalize(): 64 bytes.
HmacSha512(key, msg) ==
  The({ Collect([i \in 1..64 |->
                   (d[1] * (i + 2) + d[2] * (2 * i + 1) + (d[1] % 251) * (d[2] % 241) + i * i) % 256]) :
        d \in { << Absorb(7, key, 1, Len(key)), Absorb(11, msg, 1, Len(msg)) >> } })

\* ripemd::Ripemd160::digest: 20 bytes.
Ripemd160(data) ==
  The({ Collect([i \in 1..20 |-> (d * (i + 1) + i) % 256]) :
        d \in { Absorb(13, data, 1, Len(data)) } })

\* laron_crypto: a private key is a 32-byte scalar, nonzero and below the
\* group order; here the order is 0xFF00...00.
ScalarValid(bytes) ==
  /\ Len(bytes) = 32
  /\ \E i \in 1..32 : bytes[i] # 0
  /\ bytes[1] < 255

\* laron_crypto::PrivateKey::from_bytes
PrivateKeyFromBytes(bytes) == [ok |-> ScalarValid(bytes), key |-> bytes]

\* laron_crypto::PrivateKey::public_key().to_bytes(): 33 bytes, compressed.
PublicKeyBytes(key) ==
  <<2 + (key[32] % 2)>> \o Collect([i \in 1..32 |-> (key[i] * 3 + i) % 256])

\* laron_crypto::PrivateKey::derive_child(tweak): the tweak added to the key.
PrivateKeyDeriveChild(key, tweak) ==
  The({ [ok |-> ScalarValid(tweak) /\ ScalarValid(sum), key |-> sum] :
        sum \in { Collect([i \in 1..32 |-> (key[i] + tweak[i]) % 256]) } })

(***************************************************************************)
(* Child numbers: 32-bit values kept as <<hi, lo>> 16-bit halves.          *)
(***************************************************************************)
\* ChildNumber::from(u32)
ChildNumberFrom(hi, lo) == <<hi, lo>>

\* ChildNumber::is_hardened: the top bit is set.
IsHardened(child_number) == child_number[1] >= 32768

\* ChildNumber::to_bytes: big-endian.
ChildNumberToBytes(child_number) ==
  << child_number[1] \div 256, child_number[1] % 256,
     child_number[2] \div 256, child_number[2] % 256 >>

(***************************************************************************)
(* Extended keys (src/src/bips/bip32/mod.rs).                              *)
(***************************************************************************)
\* ExtendedKey::MAX_DEPTH = u8::MAX
MAX_DEPTH == 255

\* b"Bitcoin seed"
BitcoinSeed == <<66, 105, 116, 99, 111, 105, 110, 32, 115, 101, 101, 100>>

NoKey ==
  [key |-> << >>, parent_fingerprint |-> << >>, child_number |-> <<0, 0>>, depth |-> -1,
   chain_code |-> << >>, version |-> 0]

\* What a call returns, with the HMAC invocations it made.
KeyFailure(kind, log) == [status |-> kind, key |-> NoKey, hmacs |-> log]

\* An ExtendedKey::new that takes the halves of the HMAC output the other
\* way round.
ExtendedKeyNewSwapped(seed) ==
  The({ IF ~PrivateKeyFromBytes(SubSeq(bytes, 33, 64)).ok
        THEN KeyFailure("KeyError", <<[key |-> BitcoinSeed, msg |-> seed]>>)
        ELSE [status |-> "Ok",
              key |-> [key |-> PrivateKeyFromBytes(SubSeq(bytes, 33, 64)).key,
                       parent_fingerprint |-> <<0, 0, 0, 0>>,
                       child_number |-> ChildNumberFrom(0, 0),
                       depth |-> 0,
                       chain_code |-> SubSeq(bytes, 1, 32),
                       version |-> 0],
              hmacs |-> <<[key |-> BitcoinSeed, msg |-> seed]>>] :
        bytes \in { HmacSha512(BitcoinSeed, seed) } })

\* ExtendedKey::new
ExtendedKeyNew(seed) ==
  The({ IF ~PrivateKeyFromBytes(SubSeq(bytes, 1, 32)).ok
        THEN KeyFailure("KeyError", <<[key |-> BitcoinSeed, msg |-> seed]>>)
        ELSE [status |-> "Ok",
              key |-> [key |-> PrivateKeyFromBytes(SubSeq(bytes, 1, 32)).key,
                       parent_fingerprint |-> <<0, 0, 0, 0>>,
                       child_number |-> ChildNumberFrom(0, 0),
                       depth |-> 0,
                       chain_code |-> SubSeq(bytes, 33, 64),
                       version |-> 0],
              hmacs |-> <<[key |-> BitcoinSeed, msg |-> seed]>>] :
        bytes \in { HmacSha512(BitcoinSeed, seed) } })

\* u8::wrapping_add in the place of checked_add.
WrappingAddU8(a, b) == [some |-> TRUE, value |-> (a + b) % 256]

\* u8::checked_add
CheckedAddU8(a, b) == [some |-> a + b < 256, value |-> (a + b) % 256]

\* A derive_child message that takes the public key for hardened children
\* too.
DeriveChildMessageUnhardened(self, child_number) ==
  PublicKeyBytes(self.key) \o ChildNumberToBytes(child_number)

\* The public key and the index without its hardened bit, whatever the
\* child number.
DeriveChildMessageIndexOnly(self, child_number) ==
  PublicKeyBytes(self.key)
    \o ChildNumberToBytes(ChildNumberFrom(child_number[1] % 32768, child_number[2]))

\* The bytes ExtendedKey::derive_child feeds to the HMAC.
DeriveChildMessage(self, child_number) ==
  IF IsHardened(child_number)
  THEN <<0>> \o self.key \o ChildNumberToBytes(child_number)
  ELSE PublicKeyBytes(self.key) \o ChildNumberToBytes(child_number)

\* ExtendedKey::derive_child from the HMAC on.
DeriveChildHashed(self, child_number, msg) ==
  The({ IF ~PrivateKeyDeriveChild(self.key, SubSeq(output, 1, 32)).ok
        THEN KeyFailure("KeyError", <<[key |-> self.chain_code, msg |-> msg]>>)
        ELSE [status |-> "Ok",
              key |-> [key |-> PrivateKeyDeriveChild(self.key, SubSeq(output, 1, 32)).key,
                       parent_fingerprint |-> SubSeq(Ripemd160(PublicKeyBytes(self.key)), 1, 4),
                       child_number |-> child_number,
                       depth |-> CheckedAddU8(self.depth, 1).value,
                       chain_code |-> SubSeq(output, 33, 64),
                       version |-> 0],
              hmacs |-> <<[key |-> self.chain_code, msg |-> msg]>>] :
        output \in { HmacSha512(self.chain_code, msg) } })

\* ExtendedKey::derive_child
DeriveChild(self, child_number) ==
  IF ~CheckedAddU8(self.depth, 1).some
  THEN KeyFailure("DepthTooLarge", << >>)
  ELSE DeriveChildHashed(self, child_number, DeriveChildMessage(self, child_number))

\* The loop of ExtendedKey::derive_path from path element `pos` on, `key`
\* being the loop variable.  Besides the outcome, the record lists the
\* derive_child calls made: receiver, argument and what came back.
RECURSIVE DerivePathFrom(_, _, _, _)
DerivePathFrom(key, path, pos, calls) ==
  IF pos > Len(path)
  THEN [status |-> "Ok", key |-> key, calls |-> calls]
  ELSE The({ IF r.status # "Ok"
             THEN [status |-> r.status, key |-> NoKey,
                   calls |-> Append(calls, [self |-> key, child_number |-> path[pos],
                                            status |-> r.status, key |-> r.key,
                                            hmacs |-> r.hmacs])]
             ELSE DerivePathFrom(r.key, path, pos + 1,
                                 Append(calls, [self |-> key, child_number |-> path[pos],
                                                status |-> r.status, key |-> r.key,
                                            hmacs |-> r.hmacs])) :
             r \in { DeriveChild(key, path[pos]) } })

\* A derive_path that leaves out the first path element.
DerivePathSkippingFirst(self, path) == DerivePathFrom(self, path, 2, << >>)

\* ExtendedKey::derive_path
DerivePath(self, path) == DerivePathFrom(self, path, 1, << >>)

(***************************************************************************)
(* The earlier extended key (src/src/bip32/extended.rs): a secret key and  *)
(* a chain code.                                                           *)
(***************************************************************************)
NoSecretKey == [key |-> << >>, chain_code |-> << >>]

\* laron_crypto::crypto::SecretKey::from_slice
SecretKeyFromSlice(bytes) == [ok |-> ScalarValid(bytes), key |-> bytes]

\* u32::to_be_bytes, the index kept as <<hi, lo>> 16-bit halves.
U32ToBeBytes(index) ==
  << index[1] \div 256, index[1] % 256, index[2] \div 256, index[2] % 256 >>

\* What bip32::ExtendedKey::new and ::derive do with the HMAC output.
LegacySplit(output, log) ==
  IF ~SecretKeyFromSlice(SubSeq(output, 1, Len(output) \div 2)).ok
  THEN [status |-> "Invalid key", key |-> NoSecretKey, hmacs |-> log]
  ELSE [status |-> "Ok",
        key |-> [key |-> SecretKeyFromSlice(SubSeq(output, 1, Len(output) \div 2)).key,
                 chain_code |-> SubSeq(output, Len(output) \div 2 + 1, Len(output))],
        hmacs |-> log]

\* bip32::ExtendedKey::new
LegacyExtendedKeyNew(seed) ==
  The({ LegacySplit(output, <<[key |-> BitcoinSeed, msg |-> seed]>>) :
        output \in { HmacSha512(BitcoinSeed, seed) } })

\* bip32::ExtendedKey::derive
LegacyExtendedKeyDerive(self, index) ==
  The({ LegacySplit(output, <<[key |-> self.chain_code,
                               msg |-> self.key \o U32ToBeBytes(index)]>>) :
        output \in { HmacSha512(self.chain_code, self.key \o U32ToBeBytes(index)) } })

(***************************************************************************)
(* The key calls a client makes.                                           *)
(***************************************************************************)
\* Seeds 0..MaxSeed.
MaxSeed == 1
\* Child indices 0..MaxIndex, each normal and hardened.
MaxIndex == 1
\* Paths have at most MaxPathLen elements.
MaxPathLen == 2
\* A child number whose derivation fails on the key is retried with the
\* next index, up to index MaxIndex + MaxRetries.
MaxRetries == 3

SeedBytes(p) == Collect([i \in 1..64 |-> (p * 125 + i * (p + 3)) % 256])

ChildNumbers ==
  { ChildNumberFrom(h, i) : h \in {0, 32768}, i \in 0..MaxIndex }

RECURSIVE PathsOfLen(_)
PathsOfLen(n) ==
  IF n = 0 THEN { << >> }
  ELSE { Append(p, c) : p \in PathsOfLen(n - 1), c \in ChildNumbers }

Paths == UNION { PathsOfLen(n) : n \in 0..MaxPathLen }

VARIABLES
  xkey,      \* the ExtendedKey the client holds, or NoKey
  kcall,     \* the last key call and its arguments
  kresult,   \* what the last key call returned
  walk,      \* the derive_child calls the last derive_path made
  hops,      \* how many derivation steps lead from the master to the held key
  lkey,      \* the bip32::ExtendedKey the client holds, or NoSecretKey
  made       \* the earlier calls on the held key, each with what it returned

keyvars == <<xkey, kcall, kresult, walk, hops, lkey, made>>

NoKeyCall == [op |-> "none", seed |-> << >>, child_number |-> <<0, 0>>, path |-> << >>]

\* hmacs lists the HMAC invocations of the call itself; those of the
\* derive_child calls of a derive_path are listed with the calls, in walk.
NoKeyResult == [status |-> "none", key |-> NoKey, hmacs |-> << >>]

Idle == << >>

KeyInit ==
  /\ xkey = NoKey
  /\ kcall = NoKeyCall
  /\ kresult = NoKeyResult
  /\ walk = Idle
  /\ hops = 0
  /\ lkey = NoSecretKey
  /\ made = { }

\* ExtendedKey::new(seed); the client keeps the master key.
CallExtendedKeyNew ==
  /\ kcall = NoKeyCall
  /\ xkey = NoKey
  /\ lkey = NoSecretKey
  /\ \E p \in 0..MaxSeed :
       \E r \in { ExtendedKeyNew(SeedBytes(p)) } :
         /\ kcall' = [NoKeyCall EXCEPT !.op = "new", !.seed = SeedBytes(p)]
         /\ kresult' = r
         /\ xkey' = r.key
  /\ UNCHANGED <<walk, hops, lkey, made>>

\* The last call on the held key, with what it returned.
LastCall ==
  [op |-> kcall.op, child_number |-> kcall.child_number, path |-> kcall.path,
   status |-> kresult.status, key |-> kresult.key,
   hmacs |-> IF kcall.op = "derive_path" /\ walk # Idle
             THEN walk[1].hmacs ELSE kresult.hmacs]

\* The calls on the held key so far.
Calls == IF kcall.op \in {"derive_child", "derive_path"} THEN made \cup {LastCall} ELSE made

\* The same index with the hardened bit toggled.
Twin(child_number) ==
  ChildNumberFrom((child_number[1] + 32768) % 65536, child_number[2])

\* The held key takes several calls: the master, or a key near
\* the greatest depth, whose first call was a derive_child.
Siblings ==
  /\ xkey.depth = 0 \/ xkey.depth >= MAX_DEPTH - 1
  /\ kcall.op = "derive_child" \/ (kcall.op = "derive_path" /\ made # { })

\* The child number of the last call.
LastChild == IF kcall.op = "derive_path" THEN kcall.path[1] ELSE kcall.child_number

\* The child numbers the client asks for next: any of them on the master,
\* further down the held key's own, after a key failure the one after the
\* failed one, and on a key that takes several calls the last one again
\* and its twin.
NextChildNumbers ==
  IF kcall.op \in {"none", "new"}
  THEN IF xkey.depth = 0 THEN ChildNumbers ELSE {xkey.child_number}
  ELSE (IF /\ kcall.op = "derive_child"
           /\ kresult.status = "KeyError"
           /\ kcall.child_number[2] < MaxIndex + MaxRetries
        THEN { ChildNumberFrom(kcall.child_number[1], kcall.child_number[2] + 1) }
        ELSE { })
       \cup (IF Siblings THEN { LastChild, Twin(LastChild) } ELSE { })

\* xkey.derive_child(child_number)
CallDeriveChild ==
  /\ xkey # NoKey
  /\ \E c \in NextChildNumbers :
       /\ kcall' = [NoKeyCall EXCEPT !.op = "derive_child", !.child_number = c]
       /\ kresult' = DeriveChild(xkey, c)
  /\ made' = Calls
  /\ UNCHANGED <<xkey, walk, hops, lkey>>

\* The client goes on with the child it was returned.
Descend ==
  /\ kcall.op = "derive_child"
  /\ kresult.status = "Ok"
  /\ xkey' = kresult.key
  /\ kcall' = NoKeyCall
  /\ kresult' = NoKeyResult
  /\ hops' = hops + 1
  /\ made' = { }
  /\ UNCHANGED <<walk, lkey>>

\* The paths the client asks for next: any of them as the first call on a
\* key near the master or near the greatest depth, and on a key that takes
\* several calls the one-element path of the last child number.
NextPaths ==
  IF kcall.op \in {"none", "new"}
  THEN IF xkey.depth <= 1 \/ xkey.depth + MaxPathLen > MAX_DEPTH THEN Paths ELSE { }
  ELSE IF Siblings THEN { <<LastChild>> } ELSE { }

\* A derive_path that walks the held key itself down the path.
CallDerivePathInPlace ==
  /\ xkey # NoKey
  /\ \E path \in NextPaths :
       \E r \in { DerivePath(xkey, path) } :
         /\ kcall' = [NoKeyCall EXCEPT !.op = "derive_path", !.path = path]
         /\ kresult' = [status |-> r.status, key |-> r.key, hmacs |-> << >>]
         /\ walk' = r.calls
         /\ xkey' = IF r.status = "Ok" THEN r.key ELSE xkey
  /\ made' = Calls
  /\ UNCHANGED <<hops, lkey>>

\* xkey.derive_path(path)
CallDerivePath ==
  /\ xkey # NoKey
  /\ \E path \in NextPaths :
       \E r \in { DerivePath(xkey, path) } :
         /\ kcall' = [NoKeyCall EXCEPT !.op = "derive_path", !.path = path]
         /\ kresult' = [status |-> r.status, key |-> r.key, hmacs |-> << >>]
         /\ walk' = r.calls
  /\ made' = Calls
  /\ UNCHANGED <<xkey, hops, lkey>>

\* bip32::ExtendedKey::new(seed); the client keeps the key.
CallLegacyNew ==
  /\ kcall = NoKeyCall
  /\ xkey = NoKey
  /\ lkey = NoSecretKey
  /\ \E p \in 0..MaxSeed :
       \E r \in { LegacyExtendedKeyNew(SeedBytes(p)) } :
         /\ kcall' = [NoKeyCall EXCEPT !.op = "legacy_new", !.seed = SeedBytes(p)]
         /\ kresult' = r
         /\ lkey' = r.key
  /\ UNCHANGED <<xkey, walk, hops, made>>

\* lkey.derive(index), as the test of extended.rs chains it: the client
\* goes on with the key it was returned.
CallLegacyDerive ==
  /\ kcall.op \in {"legacy_new", "legacy_derive"}
  /\ kresult.status = "Ok"
  /\ hops < MaxPathLen
  /\ \E index \in ChildNumbers :
       \E r \in { LegacyExtendedKeyDerive(lkey, index) } :
         /\ kcall' = [NoKeyCall EXCEPT !.op = "legacy_derive", !.child_number = index]
         /\ kresult' = r
         /\ lkey' = r.key
  /\ hops' = hops + 1
  /\ UNCHANGED <<xkey, walk, made>>

KeyNext ==
  \/ CallExtendedKeyNew
  \/ CallDeriveChild
  \/ Descend
  \/ CallDerivePath
  \/ CallLegacyNew
  \/ CallLegacyDerive


(***************************************************************************)
(* Seeds (src/src/bip39/seed.rs, src/src/bips/bip39/seed.rs) and the BIP39 *)
(* struct (src/src/bip39/mod.rs).                                          *)
(***************************************************************************)
\* str::as_bytes: the UTF-8 encoding of the characters.
Utf8(s) ==
  LET Utf8Char(c) ==
        IF c < 128 THEN <<c>>
        ELSE IF c < 2048 THEN <<192 + (c \div 64), 128 + (c % 64)>>
        ELSE <<224 + (c \div 4096), 128 + ((c \div 64) % 64), 128 + (c % 64)>>
  IN  Join([i \in 1..Len(s) |-> Utf8Char(s[i])], << >>)

\* "mnemonic"
MnemonicPrefix == <<109, 110, 101, 109, 111, 110, 105, 99>>

\* pbkdf2::pbkdf2::<Hmac<Sha512>>(password, salt, rounds, &mut [0u8; len]):
\* the bytes written.
Pbkdf2HmacSha512(password, salt, rounds, len) ==
  The({ Collect([i \in 1..len |->
                   (d[1] * (i + 3) + d[2] * (3 * i + 1) + (d[1] % 239) * (d[2] % 233)
                      + rounds * i) % 256]) :
        d \in { << Absorb(17, password, 1, Len(password)), Absorb(19, salt, 1, Len(salt)) >> } })

NoSeed ==
  [status |-> "none", data |-> << >>, text |-> << >>,
   kdf |-> [password |-> << >>, salt |-> << >>, rounds |-> 0]]

\* What a seed derivation returns: the bytes, and the PBKDF2 call it made.
Derived(password, salt, rounds, len) ==
  [NoSeed EXCEPT !.status = "Ok",
                 !.data = Pbkdf2HmacSha512(password, salt, rounds, len),
                 !.kdf = [password |-> password, salt |-> salt, rounds |-> rounds]]

\* A Seed::new with a 32-byte buffer.
SeedNewHalf(mn, password) ==
  Derived(Utf8(mn.phrase), Utf8(Nfkd(MnemonicPrefix \o password)), 2048, 32)

\* bip39::Seed::new
SeedNew(mn, password) ==
  Derived(Utf8(mn.phrase), Utf8(Nfkd(MnemonicPrefix \o password)), 2048, 64)

\* bips::bip39::Mnemonic::to_bytes: the bytes of the phrase.
MnemonicToBytes(mn) == Utf8(mn.phrase)

\* bips::bip39::Seed::from_mnemonic
SeedFromMnemonic(mn, passphrase) ==
  Derived(MnemonicToBytes(mn), Utf8(Nfkd(MnemonicPrefix \o passphrase)), 2048, 64)

\* BIP39::new_seed
NewSeed(mn, passphrase) ==
  Derived(Utf8(mn),
          Utf8(IF passphrase # << >> THEN MnemonicPrefix \o passphrase ELSE MnemonicPrefix),
          2048, 64)

\* hex::encode: two lower-case digits a byte.
HexEncode(bytes) ==
  LET HexDigit(n) == IF n < 10 THEN 48 + n ELSE 87 + n
  IN  Collect([i \in 1..2 * Len(bytes) |->
                 HexDigit(IF i % 2 = 1 THEN bytes[(i + 1) \div 2] \div 16
                          ELSE bytes[i \div 2] % 16)])

\* hex::decode: an odd length or a character that is no hex digit is an
\* error.
HexDecode(s) ==
  LET HexVal(c) == IF c \in 48..57 THEN c - 48
                   ELSE IF c \in 97..102 THEN c - 87
                   ELSE IF c \in 65..70 THEN c - 55
                   ELSE -1
  IN  IF Len(s) % 2 # 0 \/ \E i \in 1..Len(s) : HexVal(s[i]) < 0
      THEN [ok |-> FALSE, bytes |-> << >>]
      ELSE [ok |-> TRUE,
            bytes |-> Collect([i \in 1..Len(s) \div 2 |->
                                 (HexVal(s[2 * i - 1]) * 16) + HexVal(s[2 * i])])]

\* Display for bips::bip39::Seed
SeedToString(seed) == HexEncode(seed)

\* FromStr for bips::bip39::Seed: copy_from_slice panics when the decoded
\* bytes are not 64.
SeedFromStr(s) ==
  The({ IF ~d.ok THEN [NoSeed EXCEPT !.status = "Err"]
        ELSE IF Len(d.bytes) # 64 THEN [NoSeed EXCEPT !.status = "Panic"]
        ELSE [NoSeed EXCEPT !.status = "Ok", !.data = d.bytes] :
        d \in { HexDecode(Utf8(s)) } })

\* WordList::index_of of the BIP39 struct: the position of the first equal
\* word, 0-based, or -1 for None.
IndexOf(word) ==
  IF word \in DOMAIN WordMapData THEN WordMapData[word] ELSE -1

\* BIP39::add_checksum: entropy.len() / 4 bytes of the digest are appended.
AddChecksum(entropy) ==
  entropy \o SubSeq(Sha256Digest(entropy), 1, Len(entropy) \div 4)

\* BIP39::new_mnemonic: word i is picked by
\* (checksum[i / 3] >> (5 - (i % 3) * 2)) & 0x1f.
NewMnemonic(entropy) ==
  The({ IF \E i \in 1..Len(index) : index[i] >= WordCount
        THEN [NoSeed EXCEPT !.status = "InvalidWordIndex"]
        ELSE [NoSeed EXCEPT !.status = "Ok",
                !.text = Join([i \in 1..Len(index) |->
                                 WordListGet(WordList("English"), index[i])], <<Space>>)] :
        index \in { Collect([k \in 1..(Len(checksum) * 3) \div 4 |->
                               (checksum[((k - 1) \div 3) + 1]
                                  \div Pow2(5 - ((k - 1) % 3) * 2)) % 32]) :
                    checksum \in { AddChecksum(entropy) } } })

\* (value >> bits) & 0xFF for the u32 value hi * 2^16 + lo.  A shift by 32
\* or more panics in a build with overflow checks and is taken modulo 32
\* in one without.
ShiftedByte(hi, lo, bits) ==
  IF bits % 32 < 16
  THEN ((lo \div Pow2(bits % 32)) + (hi % Pow2(bits % 32)) * Pow2(16 - (bits % 32))) % 256
  ELSE (hi \div Pow2((bits % 32) - 16)) % 256

\* The loop of BIP39::new_entropy_from_mnemonic from word `pos` on.
RECURSIVE NewEntropyLoop(_, _, _, _)
NewEntropyLoop(words, pos, acc, checks) ==
  IF pos > Len(words) THEN acc
  ELSE IF IndexOf(words[pos]) < 0 THEN [acc EXCEPT !.status = "InvalidWord"]
  ELSE The({ IF v.bits < 8 THEN NewEntropyLoop(words, pos + 1, v, checks)
             ELSE IF checks /\ v.bits - 8 >= 32 THEN [acc EXCEPT !.status = "Panic"]
             ELSE NewEntropyLoop(words, pos + 1,
                    [v EXCEPT !.bits = v.bits - 8,
                              !.result = Append(v.result, ShiftedByte(v.hi, v.lo, v.bits - 8))],
                    checks) :
             v \in { [acc EXCEPT
                        !.hi = (acc.hi * 2048 + ((acc.lo * 2048) \div 65536)) % 65536,
                        !.lo = ((acc.lo * 2048) % 65536) + IndexOf(words[pos]),
                        !.bits = acc.bits + 11] } })

\* BIP39::new_entropy_from_mnemonic, in a build with overflow checks or
\* without.
NewEntropyFromMnemonic(mn, checks) ==
  LET words == SplitWhitespace(mn)
      sentence_bits == Len(words) * 11
      ent_bits == sentence_bits - (sentence_bits \div 33)
      ent_bytes == ent_bits \div 8
      First(S) == CHOOSE i \in S : \A j \in S : i <= j
      \* where the comparison of result[ent_bytes + i] with hash[i] stops:
      \* at an index past the end of result, or at a byte that differs
      Stops(res) ==
        { i \in 1..ent_bytes \div 4 :
            \/ ent_bytes + i > Len(res)
            \/ res[ent_bytes + i] # Sha256Digest(res)[i] }
  IN  IF sentence_bits % 11 # 0 \/ ent_bits < 128 \/ ent_bits > 256 \/ ent_bits % 32 # 0
      THEN [NoSeed EXCEPT !.status = "InvalidMnemonic"]
      ELSE The({ IF r.status # "Ok" THEN [NoSeed EXCEPT !.status = r.status]
                 ELSE IF r.bits >= 5 THEN [NoSeed EXCEPT !.status = "InvalidMnemonic"]
                 ELSE IF Stops(r.result) = { }
                 THEN [NoSeed EXCEPT !.status = "Ok", !.data = SubSeq(r.result, 1, ent_bytes)]
                 ELSE IF ent_bytes + First(Stops(r.result)) > Len(r.result)
                 THEN [NoSeed EXCEPT !.status = "Panic"]
                 ELSE [NoSeed EXCEPT !.status = "InvalidMnemonic"] :
                 r \in { NewEntropyLoop(words, 1,
                            [status |-> "Ok", hi |-> 0, lo |-> 0, bits |-> 0, result |-> << >>],
                            checks) } })

(***************************************************************************)
(* The seed calls a client makes.                                          *)
(***************************************************************************)
\* Passphrases have at most MaxPassLen characters.
MaxPassLen == 2

RECURSIVE PassphrasesOfLen(_)
PassphrasesOfLen(n) ==
  IF n = 0 THEN { << >> }
  ELSE { Append(p, c) : p \in PassphrasesOfLen(n - 1), c \in {LetterA, FullwidthA} }

\* The ways a client rewrites the text of a seed before parsing it.
TextEdits == {"same", "upper", "odd", "short", "long", "empty", "nonhex"}

EditedText(text, e) ==
  CASE e = "same" -> text
    [] e = "upper" -> Collect([i \in 1..Len(text) |->
                                 IF text[i] \in 97..102 THEN text[i] - 32 ELSE text[i]])
    [] e = "odd" -> SubSeq(text, 1, Len(text) - 1)
    [] e = "short" -> SubSeq(text, 1, Len(text) - 2)
    [] e = "long" -> text \o <<48, 48>>
    [] e = "empty" -> << >>
    [] e = "nonhex" -> <<103>> \o Tail(text)

VARIABLES
  held,      \* the mnemonic and passphrase the client holds, or NoHeld
  scall,     \* the last seed call and its arguments
  sresult,   \* what the last seed call returned
  seeds      \* the earlier seed derivations from what the client holds

seedvars == <<held, scall, sresult, seeds>>

NoHeld == [mnemonic |-> NoMnemonic, passphrase |-> << >>]

NoSeedCall == [op |-> "none", entropy |-> << >>, text |-> << >>, edit |-> "", checks |-> FALSE]

SeedInit ==
  /\ held = NoHeld
  /\ scall = NoSeedCall
  /\ sresult = NoSeed
  /\ seeds = { }

\* The client builds a mnemonic and picks a passphrase.
TakeMnemonic ==
  /\ held = NoHeld
  /\ scall = NoSeedCall
  /\ \E len \in {16, 32}, p \in 0..MaxPattern,
        passphrase \in UNION { PassphrasesOfLen(n) : n \in 0..MaxPassLen } :
       held' = [mnemonic |-> FromEntropyUnchecked(EntropyBytes(len, p), "English"),
                passphrase |-> passphrase]
  /\ UNCHANGED <<scall, sresult, seeds>>

\* The seed derivations made so far from what the client holds.
Seeds ==
  IF scall.op \in {"Seed::new", "Seed::from_mnemonic", "BIP39::new_seed"}
  THEN seeds \cup {[op |-> scall.op, data |-> sresult.data, kdf |-> sresult.kdf]}
  ELSE seeds

\* bip39::Seed::new(&held.mnemonic, held.passphrase)
CallSeedNew ==
  /\ held # NoHeld
  /\ scall' = [NoSeedCall EXCEPT !.op = "Seed::new"]
  /\ sresult' = SeedNew(held.mnemonic, held.passphrase)
  /\ seeds' = Seeds
  /\ UNCHANGED held

\* bips::bip39::Seed::from_mnemonic(&held.mnemonic, held.passphrase)
CallSeedFromMnemonic ==
  /\ held # NoHeld
  /\ scall' = [NoSeedCall EXCEPT !.op = "Seed::from_mnemonic"]
  /\ sresult' = SeedFromMnemonic(held.mnemonic, held.passphrase)
  /\ seeds' = Seeds
  /\ UNCHANGED held

\* BIP39::new_seed(held.mnemonic.phrase(), held.passphrase)
CallNewSeed ==
  /\ held # NoHeld
  /\ scall' = [NoSeedCall EXCEPT !.op = "BIP39::new_seed"]
  /\ sresult' = NewSeed(held.mnemonic.phrase, held.passphrase)
  /\ seeds' = Seeds
  /\ UNCHANGED held

\* seed.to_string() on the bips::bip39::Seed just derived.
CallSeedToString ==
  /\ scall.op = "Seed::from_mnemonic"
  /\ scall' = [NoSeedCall EXCEPT !.op = "to_string"]
  /\ sresult' = [sresult EXCEPT !.text = SeedToString(sresult.data)]
  /\ seeds' = Seeds
  /\ UNCHANGED held

\* Seed::from_str(text) on the text of the seed, as it is or rewritten.
CallSeedFromStr ==
  /\ scall.op = "to_string"
  /\ \E e \in TextEdits :
       /\ scall' = [NoSeedCall EXCEPT !.op = "from_str", !.edit = e,
                                      !.text = EditedText(sresult.text, e)]
       /\ sresult' = SeedFromStr(EditedText(sresult.text, e))
  /\ UNCHANGED <<held, seeds>>

\* BIP39::new_mnemonic(entropy), with entropy of the lengths
\* BIP39::new_entropy hands out.
CallNewMnemonic ==
  /\ held = NoHeld
  /\ scall = NoSeedCall
  /\ \E len \in {16, 20, 24, 28, 32}, p \in 0..MaxPattern :
       /\ scall' = [NoSeedCall EXCEPT !.op = "new_mnemonic", !.entropy = EntropyBytes(len, p)]
       /\ sresult' = NewMnemonic(EntropyBytes(len, p))
  /\ UNCHANGED <<held, seeds>>

\* BIP39::new_entropy_from_mnemonic(mnemonic) on the phrase new_mnemonic
\* returned, or on the phrase of the mnemonic the client holds.
CallNewEntropyFromMnemonic ==
  /\ \/ scall.op = "new_mnemonic" /\ sresult.status = "Ok"
     \/ held # NoHeld /\ scall = NoSeedCall
  /\ \E checks \in BOOLEAN :
       \E text \in { IF held # NoHeld THEN held.mnemonic.phrase ELSE sresult.text } :
         /\ scall' = [NoSeedCall EXCEPT !.op = "new_entropy_from_mnemonic",
                                        !.entropy = IF held # NoHeld THEN held.mnemonic.entropy
                                                    ELSE scall.entropy,
                                        !.text = text, !.checks = checks]
         /\ sresult' = NewEntropyFromMnemonic(text, checks)
  /\ UNCHANGED <<held, seeds>>

SeedNext ==
  \/ TakeMnemonic
  \/ CallSeedNew
  \/ CallSeedFromMnemonic
  \/ CallNewSeed
  \/ CallSeedToString
  \/ CallSeedFromStr
  \/ CallNewMnemonic
  \/ CallNewEntropyFromMnemonic

(***************************************************************************)
(* Word lookups (src/src/bip39/language.rs) and the calls a client makes.  *)
(***************************************************************************)
\* Ord for str: a < b, byte by byte.
StrLess(a, b) ==
  \E k \in 1..Len(b) :
    /\ k <= Len(a) + 1
    /\ SubSeq(a, 1, k - 1) = SubSeq(b, 1, k - 1)
    /\ k > Len(a) \/ a[k] < b[k]

\* str::starts_with
StartsWith(word, prefix) ==
  Len(prefix) <= Len(word) /\ SubSeq(word, 1, Len(prefix)) = prefix

\* A search that takes an equal entry for a smaller one.
RECURSIVE BinarySearchPastEqual(_, _, _, _)
BinarySearchPastEqual(data, x, left, right) ==
  IF left >= right THEN left
  ELSE IF data[left + ((right - left) \div 2) + 1] = x
          \/ StrLess(data[left + ((right - left) \div 2) + 1], x)
  THEN BinarySearchPastEqual(data, x, left + ((right - left) \div 2) + 1, right)
  ELSE BinarySearchPastEqual(data, x, left, left + ((right - left) \div 2))

\* slice::binary_search(&x).unwrap_or_else(|i| i) on data[left..right]: the
\* index of the entry equal to x, or the index where x would be inserted.
RECURSIVE BinarySearch(_, _, _, _)
BinarySearch(data, x, left, right) ==
  IF left >= right THEN left
  ELSE IF data[left + ((right - left) \div 2) + 1] = x
  THEN left + ((right - left) \div 2)
  ELSE IF StrLess(data[left + ((right - left) \div 2) + 1], x)
  THEN BinarySearch(data, x, left + ((right - left) \div 2) + 1, right)
  ELSE BinarySearch(data, x, left, left + ((right - left) \div 2))

\* iter().take_while(|x| x.starts_with(prefix)): the index of the first
\* entry of data[lo..hi] that does not start with prefix, or hi.
RECURSIVE TakeWhileEnd(_, _, _, _)
TakeWhileEnd(data, prefix, lo, hi) ==
  IF lo >= hi THEN hi
  ELSE IF lo + 1 = hi THEN (IF StartsWith(data[lo + 1], prefix) THEN hi ELSE lo)
  ELSE The({ IF e < lo + ((hi - lo) \div 2) THEN e
             ELSE TakeWhileEnd(data, prefix, lo + ((hi - lo) \div 2), hi) :
             e \in { TakeWhileEnd(data, prefix, lo, lo + ((hi - lo) \div 2)) } })

NoWords == [status |-> "none", word |-> << >>, index |-> -1, words |-> << >>, start |-> -1]

\* WordList::get_word_by_prefix: slicing data[start..] panics for a start
\* past the end.
GetWordByPrefix(list, prefix) ==
  The({ IF start > Len(list.data) THEN [NoWords EXCEPT !.status = "Panic"]
        ELSE [NoWords EXCEPT
                !.status = "Ok", !.start = start,
                !.words = SubSeq(list.data, start + 1,
                                 TakeWhileEnd(list.data, prefix, start, Len(list.data)))] :
        start \in { BinarySearch(list.data, prefix, 0, Len(list.data)) } })

\* Prefixes have at most MaxPrefixLen characters, of 'A', 'a', 'h', 'p'.
MaxPrefixLen == 4

RECURSIVE PrefixesOfLen(_)
PrefixesOfLen(n) ==
  IF n = 0 THEN { << >> }
  ELSE { Append(p, c) : p \in PrefixesOfLen(n - 1), c \in {65, LetterA, LetterA + 7, LetterA + 15} }

\* The strings a client looks up after get returned `word`: the word, the
\* word without its last letter, the word with a letter more, the empty
\* string, the word in upper case.
Lookups(word) ==
  [same |-> word,
   prefix |-> SubSeq(word, 1, Len(word) - 1),
   longer |-> Append(word, LetterA),
   empty |-> << >>,
   upper |-> Collect([i \in 1..Len(word) |-> word[i] - 32])]

VARIABLES
  wcall,     \* the last word lookup and its arguments
  wresult    \* what the last word lookup returned

wordvars == <<wcall, wresult>>

NoWordCall == [op |-> "none", index |-> -1, word |-> << >>, edit |-> "", prefix |-> << >>]

WordInit ==
  /\ wcall = NoWordCall
  /\ wresult = NoWords

\* Language::English.word_list().get(index)
CallGet ==
  /\ wcall = NoWordCall
  /\ \E index \in 0..WordCount - 1 :
       /\ wcall' = [NoWordCall EXCEPT !.op = "get", !.index = index]
       /\ wresult' = [NoWords EXCEPT !.status = "Ok",
                                     !.word = WordListGet(WordList("English"), index)]

\* Language::English.word_map().get_index(word), on the word get returned
\* or on a string made from it.
CallGetIndex ==
  /\ wcall.op = "get"
  /\ \E e \in DOMAIN Lookups(wresult.word) :
       \E r \in { GetIndex(WordMap("English"), Lookups(wresult.word)[e]) } :
         /\ wcall' = [wcall EXCEPT !.op = "get_index", !.edit = e,
                                   !.word = Lookups(wresult.word)[e]]
         /\ wresult' = IF r.ok THEN [NoWords EXCEPT !.status = "Ok", !.index = r.index]
                       ELSE [NoWords EXCEPT !.status = "InvalidWord"]

\* Language::English.word_list().get_word_by_prefix(prefix)
CallGetWordByPrefix ==
  /\ wcall = NoWordCall
  /\ \E prefix \in UNION { PrefixesOfLen(n) : n \in 0..MaxPrefixLen } :
       /\ wcall' = [NoWordCall EXCEPT !.op = "get_word_by_prefix", !.prefix = prefix]
       /\ wresult' = GetWordByPrefix(WordList("English"), prefix)

WordNext ==
  \/ CallGet
  \/ CallGetIndex
  \/ CallGetWordByPrefix
(***************************************************************************)
(* Specifications: the codec calls, the key calls, the seed calls and the *)
(* word lookups.                                                           *)
(***************************************************************************)
vars == <<mnemonic, call, result, xkey, kcall, kresult, walk, hops, lkey, made,
          held, scall, sresult, seeds, wcall, wresult>>

Init == CodecInit /\ KeyInit /\ SeedInit /\ WordInit

Next == CodecNext /\ UNCHANGED <<keyvars, seedvars, wordvars>>

Spec == Init /\ [][Next]_vars

NextKey == KeyNext /\ UNCHANGED <<codecvars, seedvars, wordvars>>

SpecKey == Init /\ [][NextKey]_vars

NextSeed == SeedNext /\ UNCHANGED <<codecvars, keyvars, wordvars>>

SpecSeed == Init /\ [][NextSeed]_vars

NextWords == WordNext /\ UNCHANGED <<codecvars, keyvars, seedvars>>

SpecWords == Init /\ [][NextWords]_vars
(***************************************************************************)
(* Properties of the mnemonic codec.                                       *)
(***************************************************************************)
TypeOK ==
  /\ call.op \in {"none", "new", "from_entropy", "type", "from_phrase", "validate"}
  /\ result.status \in {"none", "Ok", "InvalidEntropyLength", "InvalidWord",
                        "InvalidMnemonicLength", "InvalidChecksum"}

SupportedLengths == {16, 20, 24, 28, 32}
SupportedWordCounts == {12, 15, 18, 21, 24}

\* The word list as a set, and the position of each word in the list.
WordSet == { WordListData[i] : i \in 1..WordCount }
PositionOf == [w \in WordSet |-> CHOOSE x \in 0..(WordCount - 1) : WordListData[x + 1] = w] @@ << >>

\* Byte k (from 0) of a byte string, zero past its end.
ByteOrZero(bytes, k) == IF k < Len(bytes) THEN bytes[k + 1] ELSE 0

\* Big-endian value of bits [11 i, 11 i + 11) of a byte string.
Group11(bytes, i) ==
  (( ByteOrZero(bytes, (11 * i) \div 8) * 65536
   + ByteOrZero(bytes, (11 * i) \div 8 + 1) * 256
   + ByteOrZero(bytes, (11 * i) \div 8 + 2)) \div Pow2(13 - ((11 * i) % 8))) % 2048

\* Index k (from 0) of a sequence of indices, zero past its end.
IndexOrZero(idx, k) == IF k < Len(idx) THEN idx[k + 1] ELSE 0

\* Big-endian value of bits [8 k, 8 k + 8) of the 11-bit groups idx.
Octet(idx, k) ==
  (( IndexOrZero(idx, (8 * k) \div 11) * 2048
   + IndexOrZero(idx, (8 * k) \div 11 + 1)) \div Pow2(14 - ((8 * k) % 11))) % 256

\* The letters of a sequence of words, counted.
TotalLen(words) == Len(Join(words, << >>))

\* C1 (as claimed): from_entropy succeeds on entropy of every supported
\* length, and from_phrase on the resulting phrase succeeds and returns that
\* entropy.
C1_RoundTrip ==
  /\ call.op = "from_entropy" /\ Len(call.ent) \in SupportedLengths
       => /\ result.status = "Ok"
          /\ result.value.entropy = call.ent
  /\ call.op = "from_phrase" /\ call.phrase = mnemonic.phrase
       => /\ result.status = "Ok"
          /\ result.value.entropy = mnemonic.entropy

\* C2 (as claimed): from_entropy returns Ok exactly for lengths 16, 20, 24,
\* 28 and 32, and InvalidEntropyLength(len) for every other length.
C2_EntropyLengthCheck ==
  call.op = "from_entropy"
    => IF Len(call.ent) \in SupportedLengths
       THEN result.status = "Ok"
       ELSE result.status = "InvalidEntropyLength" /\ result.arg = Len(call.ent)

\* C3: a mnemonic built by new or from_entropy from n bytes has
\* (8n + 8n/32)/11 words joined by single spaces, word i being the list entry
\* at the big-endian value of bits [11i, 11i+11) of entropy || SHA256(entropy)[0].
C3_PhraseLayout ==
  call.op \in {"new", "from_entropy"} /\ result.status = "Ok"
    => \A bytes \in { Append(result.value.entropy, Sha256First(result.value.entropy)) } :
       \A words \in { SplitWhitespace(result.value.phrase) } :
         /\ Len(words) = (8 * Len(result.value.entropy) + (8 * Len(result.value.entropy)) \div 32) \div 11
         /\ \A i \in 1..Len(words) : words[i] = WordListData[Group11(bytes, i - 1) + 1]
         /\ Len(result.value.phrase) = TotalLen(words) + Len(words) - 1
         /\ \A k \in 1..Len(result.value.phrase) :
              IsWhitespace(result.value.phrase[k]) => result.value.phrase[k] = Space

C3_Witness ==
  /\ call.op = "new"
  /\ call.ty = "Words24"
  /\ result.status = "Ok"
  /\ Len(SplitWhitespace(result.value.phrase)) = 24

\* C4 (as claimed): the accessors of each Type give the row of the
\* word-count table: words, total bits, entropy bits, checksum bits.
C4_TypeTable ==
  call.op = "type"
    => /\ result.bits.total_words \in SupportedWordCounts
       /\ TypeFromWords(result.bits.total_words).ty = call.ty
       /\ result.bits.total_bits = 11 * result.bits.total_words
       /\ result.bits.checksum_bits = result.bits.total_words \div 3
       /\ result.bits.entropy_bits = result.bits.total_bits - result.bits.checksum_bits
       /\ result.bits.checksum_bits = result.bits.entropy_bits \div 32

\* C5 (as claimed): validate never accepts a valid phrase with one bit of
\* its encoding flipped; it fails with InvalidChecksum or InvalidWordCount.
C5_FlipAlwaysRejected ==
  call.op = "validate" /\ call.edit.kind = "flip"
    => result.status \in {"InvalidChecksum", "InvalidWordCount"}

\* Number of words, checksum bits and checksum value of the held phrase.
HeldWords == Len(Indices(mnemonic.phrase))
HeldChecksumBits == HeldWords \div 3
HeldChecksum == Indices(mnemonic.phrase)[HeldWords] % Pow2(HeldChecksumBits)

\* The held entropy with bit b (from 0, most significant first) flipped.
FlippedEntropy(b) ==
  [k \in 1..Len(mnemonic.entropy) |->
     IF k - 1 = b \div 8
     THEN IF (mnemonic.entropy[k] \div Pow2(7 - (b % 8))) % 2 = 1
          THEN mnemonic.entropy[k] - Pow2(7 - (b % 8))
          ELSE mnemonic.entropy[k] + Pow2(7 - (b % 8))
     ELSE mnemonic.entropy[k]]

\* C5 (amended): validate of a valid phrase with one bit flipped returns
\* InvalidChecksum, always so for a checksum bit, unless the bit is an
\* entropy bit and the leading checksum bits of SHA-256 of the altered
\* entropy equal the phrase's checksum, in which case it returns Ok.
C5_FlipRejectedUnlessChecksumCollides ==
  call.op = "validate" /\ call.edit.kind = "flip"
    => /\ result.status \in {"Ok", "InvalidChecksum"}
       /\ call.edit.bit >= 11 * HeldWords - HeldChecksumBits
            => result.status = "InvalidChecksum" /\ result.hashed = mnemonic.entropy
       /\ call.edit.bit < 11 * HeldWords - HeldChecksumBits
            => /\ result.hashed = FlippedEntropy(call.edit.bit)
               /\ result.status = "Ok"
                    <=> result.digest \div Pow2(8 - HeldChecksumBits) = HeldChecksum

C5_Witness ==
  /\ call.op = "validate"
  /\ call.edit.kind = "flip"
  /\ call.edit.bit < 11 * HeldWords - HeldChecksumBits
  /\ result.status = "InvalidChecksum"
  /\ result.hashed # mnemonic.entropy

\* The tokens of a phrase, all of them words of the list, as indices.
TokenIndices(tokens) == [i \in 1..Len(tokens) |-> PositionOf[tokens[i]]]

\* The outcome the classification order prescribes for the tokens of a
\* phrase, given the bytes hashed and the first digest byte.
Classified(tokens) ==
  IF \E i \in 1..Len(tokens) : tokens[i] \notin WordSet
  THEN /\ result.status = "InvalidWord"
  ELSE IF Len(tokens) \notin SupportedWordCounts
  THEN /\ result.status = "InvalidMnemonicLength"
       /\ result.arg = Len(tokens)
  ELSE /\ Len(result.hashed) = (Len(tokens) * 4) \div 3
       /\ \A k \in 1..Len(result.hashed) :
            result.hashed[k] = Octet(TokenIndices(tokens), k - 1)
       /\ IF PositionOf[tokens[Len(tokens)]] % Pow2(Len(tokens) \div 3)
               # result.digest \div Pow2(8 - Len(tokens) \div 3)
          THEN result.status = "InvalidChecksum"
          ELSE /\ result.status = "Ok"
               /\ call.op = "from_phrase" => result.value.entropy = result.hashed

\* C6 (as claimed): validate and from_phrase classify the phrase they are
\* given by its whitespace-separated tokens: InvalidWord, else
\* InvalidMnemonicLength(n), else InvalidChecksum, else Ok.
C6_ClassifiedByGivenTokens ==
  call.op \in {"from_phrase", "validate"} => Classified(SplitWhitespace(call.phrase))

\* C6 (amended): validate classifies the phrase as given, from_phrase the
\* NFKD-normalised phrase, by the tokens in that order of checks.
C6_ClassifiedByNormalisedTokens ==
  /\ call.op = "validate" => Classified(SplitWhitespace(call.phrase))
  /\ call.op = "from_phrase" => Classified(SplitWhitespace(Nfkd(call.phrase)))

C6_Witness ==
  /\ call.op = "from_phrase"
  /\ call.edit.junk # 0
  /\ call.edit.take \notin SupportedWordCounts
  /\ result.status = "InvalidWord"

(***************************************************************************)
(* Properties of the extended-key derivation.                              *)
(***************************************************************************)
KeyTypeOK ==
  /\ kcall.op \in {"none", "new", "derive_child", "derive_path", "legacy_new", "legacy_derive"}
  /\ kresult.status \in {"none", "Ok", "KeyError", "DepthTooLarge", "Invalid key"}

\* C7: a successful derive_child returns depth parent.depth + 1; on a
\* parent of depth 255 it fails with DepthTooLarge before any HMAC call; a
\* key n successful steps from the master has depth n, never above 255.
C7_DepthMonotone ==
  /\ kcall.op = "derive_child" /\ kresult.status = "Ok"
       => kresult.key.depth = xkey.depth + 1
  /\ kcall.op = "derive_child" /\ xkey.depth = MAX_DEPTH
       => kresult.status = "DepthTooLarge" /\ kresult.hmacs = << >>
  /\ kcall.op = "derive_child" /\ xkey.depth < MAX_DEPTH
       => kresult.status # "DepthTooLarge"
  /\ xkey # NoKey => xkey.depth = hops /\ xkey.depth <= MAX_DEPTH
  /\ kcall.op \in {"new", "derive_child", "derive_path"} /\ kresult.status = "Ok"
       => kresult.key.depth \in 0..MAX_DEPTH

C7_Witness ==
  /\ kcall.op = "derive_child"
  /\ xkey.depth = MAX_DEPTH
  /\ hops = MAX_DEPTH
  /\ kresult.status = "DepthTooLarge"

\* The key derive_path holds after the first n of its derive_child calls.
KeyAfter(n) == IF n = 0 THEN xkey ELSE walk[n].key

\* C8: derive_path applies derive_child once per path element, in order,
\* each to the key the previous step returned, and returns the last key (the
\* receiver for the empty path); when a step fails it returns that step's
\* error and no key, and no later step is applied.
C8_PathFold ==
  kcall.op = "derive_path"
    => /\ Len(walk) <= Len(kcall.path)
       /\ \A i \in 1..Len(walk) :
            /\ walk[i].child_number = kcall.path[i]
            /\ walk[i].self = KeyAfter(i - 1)
            /\ walk[i].status = DeriveChild(KeyAfter(i - 1), kcall.path[i]).status
            /\ walk[i].key = DeriveChild(KeyAfter(i - 1), kcall.path[i]).key
            /\ i < Len(walk) => walk[i].status = "Ok"
       /\ IF kresult.status = "Ok"
          THEN /\ Len(walk) = Len(kcall.path)
               /\ \A i \in 1..Len(walk) : walk[i].status = "Ok"
               /\ kresult.key = KeyAfter(Len(kcall.path))
          ELSE /\ Len(walk) >= 1
               /\ walk[Len(walk)].status \in {"KeyError", "DepthTooLarge"}
               /\ kresult.status = walk[Len(walk)].status
               /\ kresult.key = NoKey

C8_Witness ==
  /\ kcall.op = "derive_path"
  /\ kresult.status = "KeyError"
  /\ Len(walk) = 1
  /\ Len(kcall.path) = 2

\* bips::bip32::ExtendedKey::new: the call made and the key returned.
MasterKeyNew ==
  kcall.op = "new"
    => /\ Len(kcall.seed) = 64
       /\ kresult.hmacs = <<[key |-> BitcoinSeed, msg |-> kcall.seed]>>
       /\ \A out \in { HmacSha512(BitcoinSeed, kcall.seed) } :
            IF ScalarValid([i \in 1..32 |-> out[i]])
            THEN /\ kresult.status = "Ok"
                 /\ kresult.key.key = [i \in 1..32 |-> out[i]]
                 /\ kresult.key.chain_code = [i \in 1..32 |-> out[32 + i]]
                 /\ kresult.key.depth = 0
                 /\ kresult.key.child_number = <<0, 0>>
                 /\ kresult.key.parent_fingerprint = <<0, 0, 0, 0>>
                 /\ xkey = kresult.key
            ELSE /\ kresult.status = "KeyError"
                 /\ kresult.key = NoKey
                 /\ xkey = NoKey

\* bip32::ExtendedKey::new, whose key has a secret key and a chain code only.
MasterKeyLegacyNew ==
  kcall.op = "legacy_new"
    => /\ Len(kcall.seed) = 64
       /\ kresult.hmacs = <<[key |-> BitcoinSeed, msg |-> kcall.seed]>>
       /\ \A out \in { HmacSha512(BitcoinSeed, kcall.seed) } :
            IF ScalarValid([i \in 1..32 |-> out[i]])
            THEN /\ kresult.status = "Ok"
                 /\ kresult.key.key = [i \in 1..32 |-> out[i]]
                 /\ kresult.key.chain_code = [i \in 1..32 |-> out[32 + i]]
                 /\ lkey = kresult.key
            ELSE /\ kresult.status = "Invalid key"
                 /\ kresult.key = NoSecretKey
                 /\ lkey = NoSecretKey

\* C9: ExtendedKey::new makes one HMAC-SHA512 call, key "Bitcoin seed",
\* message the 64 seed bytes; the left 32 bytes are the private key, the
\* right 32 the chain code, depth 0, child number 0, fingerprint zero; an
\* invalid left half gives an error and no key.
C9_MasterKey == MasterKeyNew /\ MasterKeyLegacyNew

C9_Witness ==
  /\ kcall.op = "new"
  /\ kresult.status = "Ok"
  /\ kresult.key.depth = 0
  /\ Len(kresult.key.key) = 32
  /\ Len(kresult.key.chain_code) = 32

\* The message the standard prescribes for a child of the held key.
PrescribedMessage(msg, child_number) ==
  /\ Len(msg) = 37
  /\ msg[34] * 256 + msg[35] = child_number[1]
  /\ msg[36] * 256 + msg[37] = child_number[2]
  /\ \A i \in 34..37 : msg[i] \in 0..255
  /\ IF child_number[1] >= 32768
     THEN msg[1] = 0 /\ \A i \in 1..32 : msg[1 + i] = xkey.key[i]
     ELSE \A i \in 1..33 : msg[i] = PublicKeyBytes(xkey.key)[i]

SameCall(a, b) ==
  a.op = b.op /\ a.child_number = b.child_number /\ a.path = b.path

\* The earlier calls on the held key that asked what the last call asks.
Repeated == { a \in made : SameCall(a, LastCall) }

\* The pairs of derive_child calls on the held key, both answered with a
\* key, whose child numbers differ in the hardened bit only.
TwinCalls ==
  { <<a, b>> \in Calls \X Calls :
      /\ a.op = "derive_child" /\ b.op = "derive_child"
      /\ a.status = "Ok" /\ b.status = "Ok"
      /\ ~IsHardened(a.child_number)
      /\ b.child_number = Twin(a.child_number) }

C12_TwoStageFingerprint ==
  (kcall.op = "derive_child" /\ kresult.status = "Ok") =>
    kresult.key.parent_fingerprint
      = SubSeq(Ripemd160(Sha256Digest(PublicKeyBytes(xkey.key))), 1, 4)

(***************************************************************************)
(* The parent key is left alone.                                           *)
(***************************************************************************)
\* What a call on the held key returns when it is the only call made.
Alone(a) ==
  IF a.op = "derive_child"
  THEN [status |-> DeriveChild(xkey, a.child_number).status,
        key |-> DeriveChild(xkey, a.child_number).key]
  ELSE [status |-> DerivePath(xkey, a.path).status,
        key |-> DerivePath(xkey, a.path).key]

CallsReturnAsAlone ==
  \A a \in Calls : [status |-> a.status, key |-> a.key] = Alone(a)

ParentUnchanged ==
  (kcall'.op \in {"derive_child", "derive_path"}) => (xkey' = xkey)

SeedTypeOK ==
  /\ sresult.status \in {"none", "Ok", "Err", "Panic", "InvalidMnemonic",
                         "InvalidWord", "InvalidWordIndex"}
  /\ \A i \in 1..Len(sresult.data) : sresult.data[i] \in 0..255

PrescribedKdf ==
  [password |-> Utf8(held.mnemonic.phrase),
   salt |-> Utf8(Nfkd(MnemonicPrefix \o held.passphrase)),
   rounds |-> 2048]

\* C17: Seed::new, Seed::from_mnemonic and BIP39::new_seed, called with the
\* same phrase and passphrase, all return the 64 bytes of PBKDF2-HMAC-SHA512
\* with the phrase bytes as password, NFKD("mnemonic" + passphrase) as salt
\* and 2048 iterations.
C17_SeedDerivationsAgree ==
  \A a \in Seeds :
    /\ a.kdf = PrescribedKdf
    /\ Len(a.data) = 64
    /\ \A b \in Seeds : a.data = b.data

\* C18: BIP39::new_mnemonic(e) returns (8 * len(e) + len(e) / 4) / 11 words
\* of the list, and new_entropy_from_mnemonic of that phrase returns Ok(e)
\* and does not panic.
C18_StructCodecRoundTrip ==
  /\ scall.op = "new_mnemonic" =>
       /\ sresult.status = "Ok"
       /\ Len(SplitWhitespace(sresult.text))
            = (8 * Len(scall.entropy) + (Len(scall.entropy) \div 4)) \div 11
       /\ \A i \in 1..Len(SplitWhitespace(sresult.text)) :
            SplitWhitespace(sresult.text)[i] \in WordSet
  /\ (scall.op = "new_entropy_from_mnemonic" /\ held = NoHeld) =>
       /\ sresult.status = "Ok"
       /\ sresult.data = scall.entropy

\* C20: Seed::from_str of the text to_string gave for a seed returns that
\* seed, and from_str of a text that is not the hex of exactly 64 bytes
\* returns an error and does not panic.
C20_SeedTextRoundTrip ==
  scall.op = "from_str" =>
    /\ scall.edit = "same" =>
         /\ sresult.status = "Ok"
         /\ \E a \in seeds : a.op = "Seed::from_mnemonic" /\ a.data = sresult.data
    /\ (~HexDecode(Utf8(scall.text)).ok \/ Len(HexDecode(Utf8(scall.text)).bytes) # 64) =>
         sresult.status = "Err"

(***************************************************************************)
(* Word lookups.                                                           *)
(***************************************************************************)
\* The entries of the list that start with the prefix asked for, in list
\* order.
StartingWithPrefix ==
  LET Matches(w) == StartsWith(w, wcall.prefix)
  IN  SelectSeq(WordListData, Matches)

\* C15: on the sorted list, get_word_by_prefix(prefix) returns exactly the
\* entries that start with prefix, in list order, as the run of the list
\* that begins at the position found, and slices nothing out of range; so
\* for the empty prefix, for a prefix that is an entry and for a prefix
\* greater than every entry.
C15_PrefixRun ==
  wcall.op = "get_word_by_prefix" =>
    /\ wresult.status = "Ok"
    /\ wresult.words = StartingWithPrefix
    /\ wresult.start \in 0..WordCount
    /\ wresult.start + Len(wresult.words) <= WordCount
    /\ wresult.words
         = SubSeq(WordListData, wresult.start + 1, wresult.start + Len(wresult.words))

C15_Witness ==
  /\ wcall.op = "get_word_by_prefix"
  /\ wcall.prefix \in WordSet
  /\ wresult.status = "Ok"
  /\ wresult.start > 0
  /\ wresult.words = <<wcall.prefix>>

\* C16: get_index of the word get(i) returned is Ok(i), for every index i
\* of the list, and get_index of a string that is no entry of the list, a
\* proper prefix of an entry among them, is Err(InvalidWord).
C16_MapInvertsList ==
  wcall.op = "get_index" =>
    /\ wcall.edit = "same" =>
         /\ wresult.status = "Ok"
         /\ wresult.index = wcall.index
         /\ WordListGet(WordList("English"), wresult.index) = wcall.word
    /\ wcall.word \notin WordSet => wresult.status = "InvalidWord"

C16_Witness ==
  /\ wcall.op = "get_index"
  /\ wcall.edit = "same"
  /\ wcall.index = WordCount - 1
  /\ wresult.status = "Ok"
  /\ wresult.index = WordCount - 1

(***************************************************************************)
(* Entropy and phrase of a Mnemonic.                                       *)
(***************************************************************************)
\* C19: the Mnemonic that new, from_entropy or from_phrase (from_str is
\* from_phrase for English) returned has as phrase the single-space
\* encoding of its entropy, and from_entropy accepts its entropy and
\* rebuilds that phrase.
C19_EntropyPhraseConsistent ==
  (call.op \in {"new", "from_entropy", "from_phrase"} /\ result.status = "Ok") =>
    /\ result.value.phrase
         = FromEntropyUnchecked(result.value.entropy, result.value.language).phrase
    /\ FromEntropy(result.value.entropy, result.value.language).status = "Ok"
    /\ FromEntropy(result.value.entropy, result.value.language).value.phrase
         = result.value.phrase
====
